---- MODULE Spec2Model ----
(***************************************************************************)
(* VitalityScore: the fitness score orchestrator                           *)
(* (src/utils/fitnessCalculator.ts), the HealthKit data providers          *)
(* (src/services/healthDataProviders.ts) and the HealthService singleton   *)
(* (src/services/healthService.ts).                                        *)
(*                                                                         *)
(* Numbers.  JavaScript numbers that stay integral are integers here.  A   *)
(* value produced by a division is an exact fraction [num, den] with       *)
(* den > 0, so that x / 30 and x are different things and Math.round is    *)
(* computed, not assumed.                                                  *)
(***************************************************************************)
EXTENDS Integers, Sequences, FiniteSets, TLC

VARIABLES
    metrics,      \* the HealthMetrics record handed to calculateFitnessScore
    calcCalls,    \* the arguments each calculator was called with
    result,       \* the FitnessScoreResult returned, or NoResult
    platformOS,   \* Platform.OS
    fetch,        \* the data provider call in progress and its promise
    isHealthKitInitialized,   \* the flag of the HealthService singleton
    serviceCalls  \* the HealthService method calls, by call slot

vars == <<metrics, calcCalls, result, platformOS, fetch, isHealthKitInitialized,
         serviceCalls>>

scoreVars == <<metrics, calcCalls, result>>

serviceVars == <<isHealthKitInitialized, serviceCalls>>

----------------------------------------------------------------------------
(* Exact arithmetic                                                        *)

Rat(n, d) == [num |-> n, den |-> d]

RatLess(x, y) == x.num * y.den < y.num * x.den

RatPositive(x) == x.num > 0

Abs(n) == IF n < 0 THEN -n ELSE n

RECURSIVE Gcd(_, _)
Gcd(a, b) == IF b = 0 THEN a ELSE Gcd(b, a % b)

\* The same fraction in lowest terms.
Norm(x) ==
    LET g == Gcd(Abs(x.num), x.den)
    IN IF g = 0 THEN x ELSE Rat(x.num \div g, x.den \div g)

RatAdd(x, y) == Norm(Rat(x.num * y.den + y.num * x.den, x.den * y.den))

RatSub(x, y) == Norm(Rat(x.num * y.den - y.num * x.den, x.den * y.den))

RatMul(x, y) == Norm(Rat(x.num * y.num, x.den * y.den))

\* x / y for y > 0.
RatDiv(x, y) == Norm(Rat(x.num * y.den, x.den * y.num))

RECURSIVE RatSum(_)
RatSum(s) == IF s = <<>> THEN Rat(0, 1) ELSE RatAdd(Head(s), RatSum(Tail(s)))

\* Math.round(x * 10) / 10
RoundToTenth(x) == Rat((2 * 10 * x.num + x.den) \div (2 * x.den), 10)

\* The largest c in lo..hi with c * c <= n / d (lo is known to be one).
RECURSIVE FloorSqrtIn(_, _, _, _)
FloorSqrtIn(n, d, lo, hi) ==
    IF lo >= hi THEN lo
    ELSE LET mid == (lo + hi + 1) \div 2
         IN IF mid * mid * d <= n
            THEN FloorSqrtIn(n, d, mid, hi)
            ELSE FloorSqrtIn(n, d, lo, mid - 1)

\* Math.round of the fraction n / d (d > 0): the nearest integer, halves up.
MathRound(n, d) == (2 * n + d) \div (2 * d)

Max(S) == CHOOSE x \in S : \A y \in S : y <= x

RECURSIVE SumSeq(_)
SumSeq(s) == IF s = <<>> THEN 0 ELSE Head(s) + SumSeq(Tail(s))

----------------------------------------------------------------------------
(* Bounds of the model                                                     *)

\* The largest reading a HealthMetrics field takes in the model.
MaxMetric == 300

\* The largest value of a HealthKit sample, and the most samples of a result.
MaxSampleValue == 2
MaxSamples == 2

\* Sleep samples start and end at half-hour ticks 0..MaxTick.
MaxTick == 2

\* HealthService calls in progress at once.
MaxCalls == 2

\* Historical samples start on the days 0..MaxDay, and one fetch brings at
\* most MaxHistorySamples of them, all metrics together.
MaxDay == 1
MaxHistorySamples == 3

----------------------------------------------------------------------------
(* HealthMetrics, the input of the scoring engine                          *)

Fields ==
    {"restingHeartRate", "heartRateVariability", "vo2Max",
     "deepSleepPercentage", "remSleepPercentage", "sleepConsistency",
     "monthlyTrainingTime", "trainingIntensity", "dailySteps"}

\* A negative reading, the "no data" reading and a large reading.
MetricValues == {-1, 0, MaxMetric}

HealthMetricsSet == [Fields -> MetricValues]

getZeroHealthMetrics == [f \in Fields |-> 0]

NoResult == [totalScore |-> -1]

----------------------------------------------------------------------------
(* Category calculators (./categoryCalculators) and scoring utilities      *)
(* (./scoringUtils).  Their threshold tables are not part of the sources   *)
(* at hand: a sub-metric awards nothing to a missing (0) or negative       *)
(* reading and otherwise some number of points within its maximum; `aw'    *)
(* holds the points the tables award to the readings of one call.          *)

CardiovascularMax == 30
RecoveryMax == 35
ActivityMax == 30
ExcellentPercent == 75

SubMetricMax ==
    [restingHeartRate |-> 10, heartRateVariability |-> 10, vo2Max |-> 10,
     deepSleepPercentage |-> 15, remSleepPercentage |-> 12, sleepConsistency |-> 8,
     monthlyTrainingTime |-> 12, trainingIntensity |-> 12, dailySteps |-> 6]

Clamp(x, lo, hi) == IF x < lo THEN lo ELSE IF x > hi THEN hi ELSE x

SubMetricPoints(hasReading, awarded, max) ==
    Clamp(IF hasReading THEN awarded ELSE 0, 0, max)

Item(name, points) == [name |-> name, points |-> points]

CategoryResult(items, max) ==
    [total |-> Clamp(SumSeq([i \in DOMAIN items |-> items[i].points]), 0, max),
     items |-> items]

calculateCardiovascularPoints(rhr, hrv, vo2Max, aw) ==
    CategoryResult(
        << Item("Resting Heart Rate",
                SubMetricPoints(rhr > 0, aw.restingHeartRate, SubMetricMax.restingHeartRate)),
           Item("Heart Rate Variability",
                SubMetricPoints(hrv > 0, aw.heartRateVariability, SubMetricMax.heartRateVariability)),
           Item("VO2 Max",
                SubMetricPoints(vo2Max > 0, aw.vo2Max, SubMetricMax.vo2Max)) >>,
        CardiovascularMax)

calculateRecoveryPoints(deepSleepPct, remSleepPct, consistency, aw) ==
    CategoryResult(
        << Item("Deep Sleep",
                SubMetricPoints(deepSleepPct > 0, aw.deepSleepPercentage, SubMetricMax.deepSleepPercentage)),
           Item("REM Sleep",
                SubMetricPoints(remSleepPct > 0, aw.remSleepPercentage, SubMetricMax.remSleepPercentage)),
           Item("Sleep Consistency",
                SubMetricPoints(consistency > 0, aw.sleepConsistency, SubMetricMax.sleepConsistency)) >>,
        RecoveryMax)

\* dailyTrainingMinutes is a fraction: the orchestrator divides before calling.
calculateActivityPoints(dailyTrainingMinutes, trainingIntensity, dailySteps, aw) ==
    CategoryResult(
        << Item("Monthly Training Time",
                SubMetricPoints(RatPositive(dailyTrainingMinutes), aw.monthlyTrainingTime,
                                SubMetricMax.monthlyTrainingTime)),
           Item("Training Intensity",
                SubMetricPoints(trainingIntensity > 0, aw.trainingIntensity, SubMetricMax.trainingIntensity)),
           Item("Daily Steps",
                SubMetricPoints(dailySteps > 0, aw.dailySteps, SubMetricMax.dailySteps)) >>,
        ActivityMax)

\* A category is excellent when its points are at least 75% of its maximum.
IsExcellent(total, max) == total * 100 >= ExcellentPercent * max

ExcellentNames(cardioTotal, recoveryTotal, activityTotal) ==
    SelectSeq(<< <<"Cardiovascular", cardioTotal, CardiovascularMax>>,
                 <<"Recovery", recoveryTotal, RecoveryMax>>,
                 <<"Activity", activityTotal, ActivityMax>> >>,
              LAMBDA c : IsExcellent(c[2], c[3]))

BonusTable == <<0, 1, 3, 5>>

\* detailedExplanation is a text; it is kept as its sequence of phrases, the
\* phrase "all three" appearing exactly when all three categories qualify.
calculateBonusPoints(cardioTotal, recoveryTotal, activityTotal) ==
    LET ex == ExcellentNames(cardioTotal, recoveryTotal, activityTotal)
        n  == Len(ex)
    IN [points |-> BonusTable[n + 1],
        detailedExplanation |->
            IF n = 3 THEN <<"all three">>
            ELSE <<"excellent">> \o [i \in 1..n |-> ex[i][1]]]

createBonusHistoryItem(cardioTotal, recoveryTotal, activityTotal) ==
    Item("Bonus Consistency",
         calculateBonusPoints(cardioTotal, recoveryTotal, activityTotal).points)

FitnessLevels == <<"Poor", "Fair", "Good", "Excellent">>

\* Contiguous tiers over 0..100; only their order and cover are given.
determineFitnessLevel(totalScore) ==
    IF totalScore < 40 THEN FitnessLevels[1]
    ELSE IF totalScore < 60 THEN FitnessLevels[2]
    ELSE IF totalScore < 80 THEN FitnessLevels[3]
    ELSE FitnessLevels[4]

\* String.prototype.includes on the explanation text.
Includes(text, phrase) == \E i \in DOMAIN text : text[i] = phrase

----------------------------------------------------------------------------
(* The orchestrator, src/utils/fitnessCalculator.ts                        *)

DaysPerMonth == 30

cardiovascularArgs(m) ==
    <<m.restingHeartRate, m.heartRateVariability, m.vo2Max>>

recoveryArgs(m) ==
    <<m.deepSleepPercentage, m.remSleepPercentage, m.sleepConsistency>>

\* Variant: the raw monthly total is passed on.
activityArgs_RawMonthly(m) ==
    <<Rat(m.monthlyTrainingTime, 1), m.trainingIntensity, m.dailySteps>>

\* Variant: a missing monthly total falls back to a default, (x || 900) / 30.
activityArgs_DefaultMinutes(m) ==
    <<Rat(IF m.monthlyTrainingTime = 0 THEN 900 ELSE m.monthlyTrainingTime, DaysPerMonth),
      m.trainingIntensity, m.dailySteps>>

\* metrics.monthlyTrainingTime / 30: the monthly total as a daily average.
activityArgs(m) ==
    <<Rat(m.monthlyTrainingTime, DaysPerMonth), m.trainingIntensity, m.dailySteps>>

CalculatorCalls(m) ==
    [cardiovascular |-> cardiovascularArgs(m),
     recovery       |-> recoveryArgs(m),
     activity       |-> activityArgs(m)]

\* Variant: the recovery total is passed in the activity position as well.
bonusArgs_RecoveryTwice(cardiovascularResult, recoveryResult, activityResult) ==
    <<cardiovascularResult.total, recoveryResult.total, recoveryResult.total>>

\* The three totals handed to calculateBonusPoints and createBonusHistoryItem.
bonusArgs(cardiovascularResult, recoveryResult, activityResult) ==
    <<cardiovascularResult.total, recoveryResult.total, activityResult.total>>

\* Variant: the bonus is left out of the sum.
totalScoreOf_OmitsBonus(cardiovascularResult, recoveryResult, activityResult, bonusResult) ==
    cardiovascularResult.total + recoveryResult.total + activityResult.total

\* Variant: the bonus is added twice, once for the bonus result and once for
\* the bonus history item.
totalScoreOf_BonusTwice(cardiovascularResult, recoveryResult, activityResult, bonusResult) ==
    cardiovascularResult.total + recoveryResult.total + activityResult.total
        + bonusResult.points + bonusResult.points

totalScoreOf(cardiovascularResult, recoveryResult, activityResult, bonusResult) ==
    cardiovascularResult.total + recoveryResult.total + activityResult.total
        + bonusResult.points

excellentCategoriesOf(bonusResult) ==
    IF Includes(bonusResult.detailedExplanation, "all three")
    THEN <<"Cardiovascular", "Recovery", "Activity">>
    ELSE <<>>

calculateFitnessScore(m, aw) ==
    LET calls == CalculatorCalls(m)
        cardiovascularResult ==
            calculateCardiovascularPoints(calls.cardiovascular[1], calls.cardiovascular[2],
                                          calls.cardiovascular[3], aw)
        recoveryResult ==
            calculateRecoveryPoints(calls.recovery[1], calls.recovery[2],
                                    calls.recovery[3], aw)
        activityResult ==
            calculateActivityPoints(calls.activity[1], calls.activity[2],
                                    calls.activity[3], aw)
        b == bonusArgs(cardiovascularResult, recoveryResult, activityResult)
        bonusResult == calculateBonusPoints(b[1], b[2], b[3])
        bonusHistoryItem == createBonusHistoryItem(b[1], b[2], b[3])
        totalScore ==
            totalScoreOf(cardiovascularResult, recoveryResult, activityResult, bonusResult)
    IN [totalScore |-> totalScore,
        cardiovascularPoints |-> cardiovascularResult.total,
        recoveryPoints |-> recoveryResult.total,
        activityPoints |-> activityResult.total,
        bonusPoints |-> bonusResult.points,
        fitnessLevel |-> determineFitnessLevel(totalScore),
        bonusBreakdown |->
            [cardiovascularPercent |->
                 MathRound(cardiovascularResult.total * 100, CardiovascularMax),
             recoveryPercent |-> MathRound(recoveryResult.total * 100, RecoveryMax),
             activityPercent |-> MathRound(activityResult.total * 100, ActivityMax),
             excellentCategories |-> excellentCategoriesOf(bonusResult),
             requirementsExplanation |-> bonusResult.detailedExplanation],
        historyItems |->
            cardiovascularResult.items \o recoveryResult.items
                \o activityResult.items \o <<bonusHistoryItem>>]

\* The points the sub-metric tables can award to the readings of one call.
Awards(hasReading, max) == IF hasReading THEN {0, max} ELSE {0}

AwardsFor(calls) ==
    [restingHeartRate     : Awards(calls.cardiovascular[1] > 0, SubMetricMax.restingHeartRate),
     heartRateVariability : Awards(calls.cardiovascular[2] > 0, SubMetricMax.heartRateVariability),
     vo2Max               : Awards(calls.cardiovascular[3] > 0, SubMetricMax.vo2Max),
     deepSleepPercentage  : Awards(calls.recovery[1] > 0, SubMetricMax.deepSleepPercentage),
     remSleepPercentage   : Awards(calls.recovery[2] > 0, SubMetricMax.remSleepPercentage),
     sleepConsistency     : Awards(calls.recovery[3] > 0, SubMetricMax.sleepConsistency),
     monthlyTrainingTime  : Awards(RatPositive(calls.activity[1]), SubMetricMax.monthlyTrainingTime),
     trainingIntensity    : Awards(calls.activity[2] > 0, SubMetricMax.trainingIntensity),
     dailySteps           : Awards(calls.activity[3] > 0, SubMetricMax.dailySteps)]

NoCalls == [cardiovascular |-> <<>>, recovery |-> <<>>, activity |-> <<>>]

NoServiceCalls == <<>>

NoFetch ==
    [provider |-> "none", pc |-> "idle", healthKitCalled |-> FALSE,
     error |-> FALSE, results |-> <<>>, value |-> <<>>]

InitScore ==
    /\ metrics \in HealthMetricsSet
    /\ calcCalls = NoCalls
    /\ result = NoResult
    /\ platformOS = "ios"
    /\ fetch = NoFetch
    /\ isHealthKitInitialized = FALSE
    /\ serviceCalls = NoServiceCalls

CalculateFitnessScore ==
    /\ result = NoResult
    /\ \E aw \in AwardsFor(CalculatorCalls(metrics)) :
           result' = calculateFitnessScore(metrics, aw)
    /\ calcCalls' = CalculatorCalls(metrics)
    /\ UNCHANGED <<metrics, platformOS, fetch, serviceVars>>

NextScore == CalculateFitnessScore

SpecScore == InitScore /\ [][NextScore]_vars

Scored == result # NoResult

----------------------------------------------------------------------------
(* Properties of calculateFitnessScore, checked under SpecScore            *)

\* A category qualifies when its reported points reach 75% of its maximum.
Qualifies(points, max) == 4 * points >= 3 * max

QualifyingCategories ==
    {c \in {"Cardiovascular", "Recovery", "Activity"} :
        \/ c = "Cardiovascular" /\ Qualifies(result.cardiovascularPoints, 30)
        \/ c = "Recovery" /\ Qualifies(result.recoveryPoints, 35)
        \/ c = "Activity" /\ Qualifies(result.activityPoints, 30)}

\* C1: in every result, totalScore is the sum of the four components reported
\* in the same result.
C1_TotalIsSumOfComponents ==
    Scored =>
        result.totalScore =
            result.cardiovascularPoints + result.recoveryPoints
                + result.activityPoints + result.bonusPoints

C1_Witness == Scored /\ result.bonusPoints > 0 /\ result.totalScore > result.bonusPoints

\* C2: for every input, negative and large readings included, each component
\* lies within its range and the total within 0..100.
C2_ComponentsWithinRange ==
    Scored =>
        /\ result.cardiovascularPoints \in 0..30
        /\ result.recoveryPoints \in 0..35
        /\ result.activityPoints \in 0..30
        /\ result.bonusPoints \in 0..5
        /\ result.totalScore \in 0..100

C2_Witness ==
    /\ Scored
    /\ \E f \in Fields : metrics[f] < 0
    /\ \E f \in Fields : metrics[f] = MaxMetric
    /\ result.recoveryPoints = 35
    /\ result.totalScore >= 35

\* C3: bonusPoints is 0, 1, 3 or 5 according to whether 0, 1, 2 or 3 of the
\* category totals reported in the result reach 75% of their maximum.
C3_BonusByQualifyingCount ==
    Scored =>
        LET n == Cardinality(QualifyingCategories)
        IN /\ n = 0 => result.bonusPoints = 0
           /\ n = 1 => result.bonusPoints = 1
           /\ n = 2 => result.bonusPoints = 3
           /\ n = 3 => result.bonusPoints = 5

C3_Witness ==
    /\ Scored
    /\ QualifyingCategories = {"Cardiovascular", "Recovery"}
    /\ result.bonusPoints = 3

\* C4: bonusBreakdown.excellentCategories is exactly the set of categories
\* whose points reach 75% of the category maximum.
C4_ExcellentCategoriesAreTheQualifying ==
    Scored =>
        {result.bonusBreakdown.excellentCategories[i] :
            i \in DOMAIN result.bonusBreakdown.excellentCategories}
          = QualifyingCategories

\* C5: the Activity calculator receives monthlyTrainingTime / 30 as its
\* training minutes, and every other field reaches its calculator unchanged
\* and in its documented position.
C5_CalculatorArguments ==
    Scored =>
        /\ calcCalls.activity[1].num * 30
             = metrics.monthlyTrainingTime * calcCalls.activity[1].den
        /\ calcCalls.activity[2] = metrics.trainingIntensity
        /\ calcCalls.activity[3] = metrics.dailySteps
        /\ calcCalls.cardiovascular =
             <<metrics.restingHeartRate, metrics.heartRateVariability, metrics.vo2Max>>
        /\ calcCalls.recovery =
             <<metrics.deepSleepPercentage, metrics.remSleepPercentage,
               metrics.sleepConsistency>>

C5_Witness ==
    /\ Scored
    /\ metrics.monthlyTrainingTime = 300
    /\ calcCalls.activity[1].num = 10 * calcCalls.activity[1].den

\* C6: the all-zero record scores 0 in total, in bonus and in every category,
\* and falls in the lowest fitness level.
C6_ZeroMetricsScoreZero ==
    (Scored /\ metrics = getZeroHealthMetrics) =>
        /\ result.totalScore = 0
        /\ result.bonusPoints = 0
        /\ result.cardiovascularPoints = 0
        /\ result.recoveryPoints = 0
        /\ result.activityPoints = 0
        /\ result.fitnessLevel = FitnessLevels[1]

C6_Witness == Scored /\ metrics = getZeroHealthMetrics

----------------------------------------------------------------------------
(* The data providers, src/services/healthDataProviders.ts.  A provider is *)
(* an async function: the part up to the HealthKit call is one step, the   *)
(* HealthKit callback another.  The providers share no state, so one call  *)
(* is followed at a time.                                                  *)

Providers ==
    {"getRestingHeartRateData", "getHeartRateVariabilityData", "getVO2MaxData",
     "getSleepAnalysisData", "getTodaysStepCount"}

HealthValues == [value : 0..MaxSampleValue]

HealthValueLists == UNION {[1..n -> HealthValues] : n \in 0..MaxSamples}

SleepStages == {"DEEP", "REM", "CORE"}

\* Dates are counted in half hours, so an hour is two ticks.
TicksPerHour == 2

AnySleepSamples == [startDate : 0..MaxTick, endDate : 0..MaxTick, value : SleepStages]

\* What HealthKit stores: a sample never ends before it starts.
WellFormed(sample) == sample.endDate >= sample.startDate

ValidSleepSamples == {x \in AnySleepSamples : WellFormed(x)}

AnySleepLists == UNION {[1..n -> AnySleepSamples] : n \in 0..MaxSamples}

ValidSleepLists == UNION {[1..n -> ValidSleepSamples] : n \in 0..MaxSamples}

ZeroSleep ==
    [deepSleepPercentage |-> Rat(0, 1), remSleepPercentage |-> Rat(0, 1),
     sleepConsistency |-> 0]

\* What a provider yields without data: 0, or the all-zero sleep record.
ProviderZero(p) ==
    CASE p = "getSleepAnalysisData" -> ZeroSleep
      [] p = "getVO2MaxData" -> Rat(0, 1)
      [] OTHER -> 0

\* results.length > 0 ? results.reduce(sum) / results.length : 0
averageOf(results) ==
    IF Len(results) > 0
    THEN Norm(Rat(SumSeq([i \in DOMAIN results |-> results[i].value]), Len(results)))
    ELSE Rat(0, 1)

restingHeartRateOf(results) ==
    LET a == averageOf(results) IN MathRound(a.num, a.den)

heartRateVariabilityOf(results) ==
    LET a == averageOf(results) IN MathRound(a.num, a.den)

vo2MaxOf(results) == RoundToTenth(averageOf(results))

\* results.value || 0
stepCountOf(results) == IF results.value = 0 THEN 0 ELSE results.value

\* (endDate.getTime() - startDate.getTime()) / (1000 * 60 * 60)
sleepHours(sample) == Norm(Rat(sample.endDate - sample.startDate, TicksPerHour))

sleepDurationsOf(results) == [i \in DOMAIN results |-> sleepHours(results[i])]

\* The hours of the samples of one stage.
stageHours(results, stage) ==
    RatSum([i \in DOMAIN results |->
               IF results[i].value = stage THEN sleepHours(results[i]) ELSE Rat(0, 1)])

totalSleepOf(results) == RatSum(sleepDurationsOf(results))

\* totalSleep > 0 ? (stageTotal / totalSleep) * 100 : 0
sleepPercentage(stageTotal, totalSleep) ==
    IF RatPositive(totalSleep)
    THEN RatMul(RatDiv(stageTotal, totalSleep), Rat(100, 1))
    ELSE Rat(0, 1)

varianceOf(sleepDurations) ==
    LET n == Len(sleepDurations)
        averageSleep ==
            IF n > 0 THEN RatDiv(RatSum(sleepDurations), Rat(n, 1)) ELSE Rat(0, 1)
        squares ==
            [i \in DOMAIN sleepDurations |->
                RatMul(RatSub(sleepDurations[i], averageSleep),
                       RatSub(sleepDurations[i], averageSleep))]
    IN IF n > 0 THEN RatDiv(RatSum(squares), Rat(n, 1)) ELSE Rat(0, 1)

\* No score needs a root above this: 100 - 20 * sd is negative from sd = 5 on.
SqrtCap == 202

\* The least integer at or above 40 * Math.sqrt(variance), up to SqrtCap + 1.
CeilFortyDeviations(variance) ==
    LET n == 1600 * variance.num
        f == FloorSqrtIn(n, variance.den, 0, SqrtCap)
    IN IF f * f * variance.den = n THEN f ELSE f + 1

\* Variant: the deviation is added, 100 + standardDeviation * 20.
sleepConsistencyOf_Added(variance) ==
    (201 + FloorSqrtIn(1600 * variance.num, variance.den, 0, SqrtCap)) \div 2

\* Math.round(Math.max(0, 100 - Math.sqrt(variance) * 20)): the largest k with
\* k - 1/2 <= 100 - 20 * sd, that is 40 * sd <= 201 - 2 * k, and 0 if there is none.
sleepConsistencyOf(variance) ==
    Max({0, (201 - CeilFortyDeviations(variance)) \div 2})

sleepAnalysisOf(results) ==
    LET totalSleep == totalSleepOf(results)
    IN [deepSleepPercentage |->
            RoundToTenth(sleepPercentage(stageHours(results, "DEEP"), totalSleep)),
        remSleepPercentage |->
            RoundToTenth(sleepPercentage(stageHours(results, "REM"), totalSleep)),
        sleepConsistency |-> sleepConsistencyOf(varianceOf(sleepDurationsOf(results)))]

\* if (callbackError) resolve(0)
OnCallbackError(p) == [pc |-> "resolved", value |-> ProviderZero(p)]

OnCallbackSuccess(p, results) ==
    [pc |-> "resolved",
     value |->
        CASE p = "getRestingHeartRateData" -> restingHeartRateOf(results)
          [] p = "getHeartRateVariabilityData" -> heartRateVariabilityOf(results)
          [] p = "getVO2MaxData" -> vo2MaxOf(results)
          [] p = "getSleepAnalysisData" -> sleepAnalysisOf(results)
          [] p = "getTodaysStepCount" -> stepCountOf(results)]

\* The provider up to its first await: if (Platform.OS !== "ios") return 0,
\* else the HealthKit query is issued with the callback.
GetProviderData(p) ==
    /\ fetch.pc \in {"idle", "resolved"}
    /\ fetch' =
         IF platformOS # "ios"
         THEN [provider |-> p, pc |-> "resolved", healthKitCalled |-> FALSE,
               error |-> FALSE, results |-> <<>>, value |-> ProviderZero(p)]
         ELSE [provider |-> p, pc |-> "pending", healthKitCalled |-> TRUE,
               error |-> FALSE, results |-> <<>>, value |-> <<>>]
    /\ UNCHANGED <<scoreVars, platformOS, serviceVars>>

\* The promise of provider p awaits its HealthKit callback.
Pending(p) == fetch.pc = "pending" /\ fetch.provider = p

\* The callback HealthKit invokes with (callbackError, results).
HealthKitCallback(p, callbackError, results) ==
    /\ Pending(p)
    /\ LET out == IF callbackError THEN OnCallbackError(p)
                  ELSE OnCallbackSuccess(p, results)
       IN fetch' = [fetch EXCEPT !.pc = out.pc, !.value = out.value,
                                 !.error = callbackError,
                                 !.results = IF callbackError THEN <<>> ELSE results]
    /\ UNCHANGED <<scoreVars, platformOS, serviceVars>>

RestingHeartRateCallback ==
    /\ Pending("getRestingHeartRateData")
    /\ \/ HealthKitCallback("getRestingHeartRateData", TRUE, <<>>)
       \/ \E r \in HealthValueLists : HealthKitCallback("getRestingHeartRateData", FALSE, r)

HeartRateVariabilityCallback ==
    /\ Pending("getHeartRateVariabilityData")
    /\ \/ HealthKitCallback("getHeartRateVariabilityData", TRUE, <<>>)
       \/ \E r \in HealthValueLists : HealthKitCallback("getHeartRateVariabilityData", FALSE, r)

Vo2MaxCallback ==
    /\ Pending("getVO2MaxData")
    /\ \/ HealthKitCallback("getVO2MaxData", TRUE, <<>>)
       \/ \E r \in HealthValueLists : HealthKitCallback("getVO2MaxData", FALSE, r)

SleepCallback ==
    /\ Pending("getSleepAnalysisData")
    /\ \/ HealthKitCallback("getSleepAnalysisData", TRUE, <<>>)
       \/ \E r \in ValidSleepLists : HealthKitCallback("getSleepAnalysisData", FALSE, r)

\* The same callback, were HealthKit to deliver samples with any dates.
SleepCallbackAnyDates ==
    /\ Pending("getSleepAnalysisData")
    /\ \/ HealthKitCallback("getSleepAnalysisData", TRUE, <<>>)
       \/ \E r \in AnySleepLists : HealthKitCallback("getSleepAnalysisData", FALSE, r)

StepCountCallback ==
    /\ Pending("getTodaysStepCount")
    /\ \/ HealthKitCallback("getTodaysStepCount", TRUE, <<>>)
       \/ \E r \in HealthValues : HealthKitCallback("getTodaysStepCount", FALSE, r)

InitProviders ==
    /\ metrics = getZeroHealthMetrics
    /\ calcCalls = NoCalls
    /\ result = NoResult
    /\ platformOS \in {"ios", "android"}
    /\ fetch = NoFetch
    /\ isHealthKitInitialized = FALSE
    /\ serviceCalls = NoServiceCalls

CallProvider == \E p \in Providers : GetProviderData(p)

NextProviders ==
    \/ CallProvider
    \/ RestingHeartRateCallback
    \/ HeartRateVariabilityCallback
    \/ Vo2MaxCallback
    \/ SleepCallback
    \/ StepCountCallback

SpecProviders == InitProviders /\ [][NextProviders]_vars

CallSleepProvider == GetProviderData("getSleepAnalysisData")

NextSleep == CallSleepProvider \/ SleepCallbackAnyDates

SpecSleep == InitProviders /\ [][NextSleep]_vars

----------------------------------------------------------------------------
(* Properties of the data providers                                        *)

Resolved == fetch.pc = "resolved"

\* The promise resolved from a HealthKit callback that reported no error.
ResolvedFromSamples == Resolved /\ fetch.healthKitCalled /\ ~fetch.error

IsZeroValue(p, v) ==
    CASE p = "getSleepAnalysisData" ->
            /\ v.deepSleepPercentage.num = 0
            /\ v.remSleepPercentage.num = 0
            /\ v.sleepConsistency = 0
      [] p = "getVO2MaxData" -> v.num = 0
      [] OTHER -> v = 0

IsNonNegativeValue(p, v) ==
    CASE p = "getSleepAnalysisData" ->
            /\ v.deepSleepPercentage.num >= 0
            /\ v.remSleepPercentage.num >= 0
            /\ v.sleepConsistency >= 0
      [] p = "getVO2MaxData" -> v.num >= 0
      [] OTHER -> v >= 0

\* C7: no provider rejects; off iOS it resolves to 0 (the all-zero record for
\* sleep) without calling HealthKit, on a callback error it resolves to 0, on
\* an empty sample list it resolves to 0, and every resolved value is >= 0.
C7_ProvidersResolveZeroWithoutData ==
    /\ fetch.pc # "rejected"
    /\ Resolved =>
        /\ platformOS # "ios" =>
              ~fetch.healthKitCalled /\ IsZeroValue(fetch.provider, fetch.value)
        /\ fetch.error => IsZeroValue(fetch.provider, fetch.value)
        /\ (ResolvedFromSamples /\ fetch.provider # "getTodaysStepCount"
                /\ fetch.results = <<>>)
              => IsZeroValue(fetch.provider, fetch.value)
        /\ IsNonNegativeValue(fetch.provider, fetch.value)

WithinPercent(x) == x.num >= 0 /\ x.num <= 100 * x.den

\* The lists of hours that samples which end no earlier than they start
\* (fromTick = 0), or samples with any dates (fromTick = -MaxTick), can have.
DurationLists(fromTick) ==
    UNION {[1..n -> {Norm(Rat(t, TicksPerHour)) : t \in fromTick..MaxTick}] :
              n \in 0..MaxSamples}

\* The variance and the consistency score of every well-formed sample list.
ConsistencyOfWellFormed ==
    {<<varianceOf(d), sleepConsistencyOf(varianceOf(d))>> : d \in DurationLists(0)}

\* The same for the sample lists with any dates.
ConsistencyOfAny ==
    {<<varianceOf(d), sleepConsistencyOf(varianceOf(d))>> : d \in DurationLists(-MaxTick)}

\* The score resolved is not above that of any list in `table' of a smaller
\* deviation nor below that of any list of a larger one.  (The deviations are
\* compared by their squares, the variances.)
ConsistencyMonotoneIn(table) ==
    LET v == varianceOf(sleepDurationsOf(fetch.results))
    IN \A t \in table :
          /\ RatLess(v, t[1]) => t[2] <= fetch.value.sleepConsistency
          /\ RatLess(t[1], v) => t[2] >= fetch.value.sleepConsistency

SleepWithinRange ==
    /\ WithinPercent(fetch.value.deepSleepPercentage)
    /\ WithinPercent(fetch.value.remSleepPercentage)
    /\ fetch.value.sleepConsistency \in 0..100

----------------------------------------------------------------------------
(* The HealthService singleton, src/services/healthService.ts.  A method   *)
(* call runs up to its first await in one step; the initHealthKit callback *)
(* together with the continuation it resumes is the next step, and the     *)
(* settling of Promise.all over the providers the last.                    *)

Methods ==
    {"initialize", "getAllHealthMetrics", "getTodaysHealthMetrics",
     "getHistoricalHealthData", "getComprehensiveHistoricalData"}

GetMethods == Methods \ {"initialize"}

HistoricalProviders ==
    {"getHistoricalStepsData", "getHistoricalHeartRateData",
     "getHistoricalHRVData", "getHistoricalSleepData"}

\* The providers a method hands to Promise.all.  getComprehensiveHistoricalData
\* calls this.getHistoricalHealthData, which finds the flag set (nothing runs
\* between the check that let the outer call pass and the nested one).
ProvidersOf(m) ==
    CASE m = "getAllHealthMetrics" ->
            {"getRestingHeartRateData", "getHeartRateVariabilityData", "getVO2MaxData",
             "getSleepAnalysisData", "getTodaysStepCount", "getMonthlyWorkoutData"}
      [] m = "getTodaysHealthMetrics" ->
            {"getTodaysStepCount", "getTodaysWorkoutData", "getRestingHeartRateData",
             "getHeartRateVariabilityData"}
      [] m = "getHistoricalHealthData" -> HistoricalProviders
      [] m = "getComprehensiveHistoricalData" ->
            HistoricalProviders \cup {"getHistoricalWorkoutData"}
      [] OTHER -> {}

ZeroTodaysMetrics ==
    [dailySteps |-> 0, dailyTrainingTime |-> 0, trainingIntensity |-> 0,
     restingHeartRate |-> 0, heartRateVariability |-> 0]

\* What the providers resolve to: with no data, and with some.
ZeroReadings ==
    [restingHeartRate |-> 0, heartRateVariability |-> 0, vo2Max |-> Rat(0, 1),
     sleepData |-> ZeroSleep, dailySteps |-> 0,
     workoutData |-> [monthlyTrainingTime |-> 0, trainingIntensity |-> 0],
     todaysTraining |-> [dailyTrainingTime |-> 0, trainingIntensity |-> 0],
     historicalWorkouts |-> <<>>]

SomeReadings ==
    [restingHeartRate |-> restingHeartRateOf(<<[value |-> MaxSampleValue]>>),
     heartRateVariability |-> heartRateVariabilityOf(<<[value |-> MaxSampleValue]>>),
     vo2Max |-> vo2MaxOf(<<[value |-> MaxSampleValue]>>),
     sleepData |->
        sleepAnalysisOf(<<[startDate |-> 0, endDate |-> MaxTick, value |-> "DEEP"],
                          [startDate |-> 0, endDate |-> 1, value |-> "CORE"]>>),
     dailySteps |-> stepCountOf([value |-> MaxSampleValue]),
     workoutData |-> [monthlyTrainingTime |-> MaxMetric, trainingIntensity |-> 1],
     todaysTraining |-> [dailyTrainingTime |-> 1, trainingIntensity |-> 1],
     historicalWorkouts |-> <<[date |-> 0, duration |-> 1, intensity |-> 1]>>]

Readings == {ZeroReadings, SomeReadings}

healthMetricsOf(r) ==
    [restingHeartRate |-> r.restingHeartRate,
     heartRateVariability |-> r.heartRateVariability,
     vo2Max |-> r.vo2Max,
     deepSleepPercentage |-> r.sleepData.deepSleepPercentage,
     remSleepPercentage |-> r.sleepData.remSleepPercentage,
     sleepConsistency |-> r.sleepData.sleepConsistency,
     monthlyTrainingTime |-> r.workoutData.monthlyTrainingTime,
     trainingIntensity |-> r.workoutData.trainingIntensity,
     dailySteps |-> r.dailySteps]

todaysMetricsOf(r) ==
    [dailySteps |-> r.dailySteps,
     dailyTrainingTime |-> r.todaysTraining.dailyTrainingTime,
     trainingIntensity |-> r.todaysTraining.trainingIntensity,
     restingHeartRate |-> r.restingHeartRate,
     heartRateVariability |-> r.heartRateVariability]

----------------------------------------------------------------------------
(* Historical samples and their grouping by date.  A startDate is counted  *)
(* in hours; new Date(startDate).toDateString() names its calendar day.    *)

HistoryMetrics == {"stepsData", "heartRateData", "hrvData", "sleepData"}

\* Midnight of every day, and noon of the first.
Timestamps == {d * 24 : d \in 0..MaxDay} \cup {12}

TaggedSamples == [metric : HistoryMetrics, startDate : Timestamps]

TaggedLists == UNION {[1..n -> TaggedSamples] : n \in 0..MaxHistorySamples}

samplesOf(q, metric) ==
    LET sel == SelectSeq(q, LAMBDA x : x.metric = metric)
    IN [i \in DOMAIN sel |-> [startDate |-> sel[i].startDate]]

\* The four sample lists one fetch resolves to.
fetchedOf(q) == [f \in HistoryMetrics |-> samplesOf(q, f)]

HistoricalFetches == {fetchedOf(q) : q \in TaggedLists}

NoHistory == [f \in HistoryMetrics |-> <<>>]

SomeHistory ==
    [stepsData |-> <<[startDate |-> 0], [startDate |-> 12]>>,
     heartRateData |-> <<[startDate |-> 24]>>,
     hrvData |-> <<>>,
     sleepData |-> <<>>]

\* Variant: the groups are keyed by the full timestamp.
toDateString_Timestamp(startDate) == startDate

toDateString(startDate) == startDate \div 24

newGroup(sample) ==
    [key |-> toDateString(sample.startDate), date |-> sample.startDate,
     stepsData |-> <<>>, heartRateData |-> <<>>, hrvData |-> <<>>, sleepData |-> <<>>]

\* if (!dateGroups[dateStr]) dateGroups[dateStr] = {...}; dateGroups[dateStr][field].push(sample)
pushSample(dateGroups, sample, field) ==
    LET dateStr == toDateString(sample.startDate)
        g == IF \E i \in DOMAIN dateGroups : dateGroups[i].key = dateStr
             THEN dateGroups
             ELSE Append(dateGroups, newGroup(sample))
        k == CHOOSE i \in DOMAIN g : g[i].key = dateStr
    IN [g EXCEPT ![k][field] = Append(@, sample)]

\* samples.forEach(...)
RECURSIVE groupSamples(_, _, _)
groupSamples(dateGroups, samples, field) ==
    IF samples = <<>> THEN dateGroups
    ELSE groupSamples(pushSample(dateGroups, Head(samples), field), Tail(samples), field)

\* The groups in the order their keys were inserted, as Object.values gives them.
dateGroupsOf(fetched) ==
    groupSamples(
        groupSamples(
            groupSamples(
                groupSamples(<<>>, fetched.stepsData, "stepsData"),
                fetched.heartRateData, "heartRateData"),
            fetched.hrvData, "hrvData"),
        fetched.sleepData, "sleepData")

\* a stays before b under the comparator b.date.getTime() - a.date.getTime().
comesBefore(a, b) == b.date - a.date <= 0

RECURSIVE insertSorted(_, _)
insertSorted(sorted, x) ==
    IF sorted = <<>> THEN <<x>>
    ELSE IF comesBefore(Head(sorted), x)
         THEN <<Head(sorted)>> \o insertSorted(Tail(sorted), x)
         ELSE <<x>> \o sorted

\* Array.prototype.sort, which is stable.
RECURSIVE sortGroups(_)
sortGroups(groups) ==
    IF groups = <<>> THEN <<>>
    ELSE insertSorted(sortGroups(SubSeq(groups, 1, Len(groups) - 1)), groups[Len(groups)])

historicalDataOf(fetched) ==
    LET sorted == sortGroups(dateGroupsOf(fetched))
    IN [i \in DOMAIN sorted |->
           [date |-> sorted[i].date,
            stepsData |-> sorted[i].stepsData,
            heartRateData |-> sorted[i].heartRateData,
            hrvData |-> sorted[i].hrvData,
            sleepData |-> sorted[i].sleepData]]

----------------------------------------------------------------------------
(* The method calls                                                        *)

IdleCall ==
    [method |-> "none", pc |-> "idle", flagAtStart |-> FALSE, init |-> "none",
     initHealthKitCalled |-> FALSE, invoked |-> {}, fetched |-> NoHistory,
     outcome |-> <<>>]

Slots == DOMAIN serviceCalls

\* Variant: every get method answers a failed initialization with zeros.
OnInitFailure_ZeroRecord(m) ==
    IF m = "initialize" THEN [pc |-> "returned", outcome |-> FALSE]
    ELSE [pc |-> "returned", outcome |-> ZeroTodaysMetrics]

\* What a method does when this.initialize() gave false: initialize itself
\* returns false, getTodaysHealthMetrics returns zeros, the others throw.
OnInitFailure(m) ==
    IF m = "initialize" THEN [pc |-> "returned", outcome |-> FALSE]
    ELSE IF m = "getTodaysHealthMetrics"
         THEN [pc |-> "returned", outcome |-> ZeroTodaysMetrics]
         ELSE [pc |-> "threw", outcome |-> "HealthKitInitializationError"]

\* The call up to its first await.
StartCall(c, m) ==
    /\ serviceCalls[c].pc \in {"idle", "returned", "threw"}
    /\ LET started ==
               [IdleCall EXCEPT !.method = m, !.flagAtStart = isHealthKitInitialized]
       IN serviceCalls' = [serviceCalls EXCEPT ![c] =
              IF m # "initialize" /\ isHealthKitInitialized
              THEN [started EXCEPT !.pc = "fetch", !.invoked = ProvidersOf(m)]
              ELSE IF platformOS # "ios"
                   THEN [started EXCEPT !.init = "failed",
                                        !.pc = OnInitFailure(m).pc,
                                        !.outcome = OnInitFailure(m).outcome]
                   ELSE [started EXCEPT !.pc = "init", !.init = "pending",
                                        !.initHealthKitCalled = TRUE]]
    /\ UNCHANGED <<scoreVars, platformOS, fetch, isHealthKitInitialized>>

\* Variant: the error branch of the callback leaves the flag as it was.
InitHealthKitCallback_ErrorKeepsFlag(c, error) ==
    /\ serviceCalls[c].pc = "init"
    /\ isHealthKitInitialized' = (IF error THEN isHealthKitInitialized ELSE TRUE)
    /\ LET m == serviceCalls[c].method
       IN serviceCalls' = [serviceCalls EXCEPT ![c] =
              IF error
              THEN [@ EXCEPT !.init = "failed",
                             !.pc = OnInitFailure(m).pc,
                             !.outcome = OnInitFailure(m).outcome]
              ELSE IF m = "initialize"
                   THEN [@ EXCEPT !.init = "succeeded", !.pc = "returned",
                                  !.outcome = TRUE]
                   ELSE [@ EXCEPT !.init = "succeeded", !.pc = "fetch",
                                  !.invoked = ProvidersOf(m)]]
    /\ UNCHANGED <<scoreVars, platformOS, fetch>>

\* The callback of AppleHealthKit.initHealthKit and the continuation of the
\* method that awaited it.
InitHealthKitCallback(c, error) ==
    /\ serviceCalls[c].pc = "init"
    /\ isHealthKitInitialized' = ~error
    /\ LET m == serviceCalls[c].method
       IN serviceCalls' = [serviceCalls EXCEPT ![c] =
              IF error
              THEN [@ EXCEPT !.init = "failed",
                             !.pc = OnInitFailure(m).pc,
                             !.outcome = OnInitFailure(m).outcome]
              ELSE IF m = "initialize"
                   THEN [@ EXCEPT !.init = "succeeded", !.pc = "returned",
                                  !.outcome = TRUE]
                   ELSE [@ EXCEPT !.init = "succeeded", !.pc = "fetch",
                                  !.invoked = ProvidersOf(m)]]
    /\ UNCHANGED <<scoreVars, platformOS, fetch>>

IsHistorical(m) == m \in {"getHistoricalHealthData", "getComprehensiveHistoricalData"}

\* Promise.all resolved: the providers gave the readings r and the samples h.
ProvidersResolve(c, r, h) ==
    /\ serviceCalls[c].pc = "fetch"
    /\ LET m == serviceCalls[c].method
       IN serviceCalls' = [serviceCalls EXCEPT ![c] =
              [@ EXCEPT !.pc = "returned",
                        !.fetched = IF IsHistorical(m) THEN h ELSE NoHistory,
                        !.outcome =
                            CASE m = "getAllHealthMetrics" -> healthMetricsOf(r)
                              [] m = "getTodaysHealthMetrics" -> todaysMetricsOf(r)
                              [] m = "getHistoricalHealthData" -> historicalDataOf(h)
                              [] m = "getComprehensiveHistoricalData" ->
                                    [historicalData |-> historicalDataOf(h),
                                     workoutData |-> r.historicalWorkouts]]]
    /\ UNCHANGED <<scoreVars, platformOS, fetch, isHealthKitInitialized>>

\* Promise.all rejected: getTodaysHealthMetrics catches and returns zeros, the
\* others rethrow.
ProvidersReject(c) ==
    /\ serviceCalls[c].pc = "fetch"
    /\ serviceCalls' = [serviceCalls EXCEPT ![c] =
           IF @.method = "getTodaysHealthMetrics"
           THEN [@ EXCEPT !.pc = "returned", !.outcome = ZeroTodaysMetrics]
           ELSE [@ EXCEPT !.pc = "threw", !.outcome = "ProviderError"]]
    /\ UNCHANGED <<scoreVars, platformOS, fetch, isHealthKitInitialized>>

InitService ==
    /\ metrics = getZeroHealthMetrics
    /\ calcCalls = NoCalls
    /\ result = NoResult
    /\ platformOS \in {"ios", "android"}
    /\ fetch = NoFetch
    /\ isHealthKitInitialized = FALSE
    /\ serviceCalls = [c \in 1..MaxCalls |-> IdleCall]

StartServiceCall == \E c \in Slots, m \in Methods : StartCall(c, m)

InitHealthKitCalledBack == \E c \in Slots, error \in BOOLEAN : InitHealthKitCallback(c, error)

ProvidersResolved ==
    \E c \in Slots, r \in Readings, h \in {NoHistory, SomeHistory} :
        ProvidersResolve(c, r, h)

ProvidersRejected == \E c \in Slots : ProvidersReject(c)

NextService ==
    \/ StartServiceCall
    \/ InitHealthKitCalledBack
    \/ ProvidersResolved
    \/ ProvidersRejected

SpecService == InitService /\ [][NextService]_vars

\* One getHistoricalHealthData call at a time, over every fetch within the bounds.
InitHistory ==
    /\ metrics = getZeroHealthMetrics
    /\ calcCalls = NoCalls
    /\ result = NoResult
    /\ platformOS = "ios"
    /\ fetch = NoFetch
    /\ isHealthKitInitialized = FALSE
    /\ serviceCalls = <<IdleCall>>

StartHistorical == StartCall(1, "getHistoricalHealthData")

HistoricalInitCalledBack == \E error \in BOOLEAN : InitHealthKitCallback(1, error)

HistoricalResolved ==
    /\ serviceCalls[1].pc = "fetch"
    /\ \E h \in HistoricalFetches : ProvidersResolve(1, ZeroReadings, h)

HistoricalRejected == ProvidersReject(1)

NextHistory ==
    \/ StartHistorical
    \/ HistoricalInitCalledBack
    \/ HistoricalResolved
    \/ HistoricalRejected

SpecHistory == InitHistory /\ [][NextHistory]_vars

----------------------------------------------------------------------------
(* Properties of the HealthService                                         *)

\* The call found the flag unset and its initialization failed: off iOS, or
\* by an error of the initHealthKit callback.
InitFailedFor(k) == k.method \in GetMethods /\ ~k.flagAtStart /\ k.init = "failed"

\* C9: when HealthKit is not initialized and initialization fails,
\* getAllHealthMetrics, getHistoricalHealthData and
\* getComprehensiveHistoricalData fail with HealthKitInitializationError and
\* invoke no provider, so they return no record; getTodaysHealthMetrics does
\* not fail and returns the record of five zeros.
C9_InitializationFailure ==
    \A c \in Slots :
        LET k == serviceCalls[c]
        IN /\ (k.method \in GetMethods /\ k.init = "pending") => k.invoked = {}
           /\ (InitFailedFor(k) /\ k.method # "getTodaysHealthMetrics") =>
                 /\ k.pc = "threw"
                 /\ k.outcome = "HealthKitInitializationError"
                 /\ k.invoked = {}
           /\ (InitFailedFor(k) /\ k.method = "getTodaysHealthMetrics") =>
                 /\ k.pc = "returned"
                 /\ k.outcome = ZeroTodaysMetrics

C9_Witness ==
    \E c, d \in Slots :
        /\ InitFailedFor(serviceCalls[c])
        /\ serviceCalls[c].method = "getAllHealthMetrics"
        /\ serviceCalls[c].initHealthKitCalled
        /\ serviceCalls[c].pc = "threw"
        /\ InitFailedFor(serviceCalls[d])
        /\ serviceCalls[d].method = "getTodaysHealthMetrics"
        /\ serviceCalls[d].pc = "returned"

\* The calendar day of a startDate counted in hours.
CalendarDay(startDate) == startDate \div 24

HistoryReturned ==
    /\ serviceCalls[1].method = "getHistoricalHealthData"
    /\ serviceCalls[1].pc = "returned"

\* C10: the records partition the fetched samples by calendar day: a record
\* holds, per metric and in fetch order, exactly the fetched samples of its
\* day; every sample's day has exactly one record; no two records share a day;
\* no record is empty; the records run from the newest date to the oldest.
C10_RecordsPartitionSamplesByDay ==
    HistoryReturned =>
        LET fetched == serviceCalls[1].fetched
            records == serviceCalls[1].outcome
        IN /\ \A r \in DOMAIN records, f \in HistoryMetrics :
                 records[r][f] =
                     SelectSeq(fetched[f],
                               LAMBDA x : CalendarDay(x.startDate)
                                            = CalendarDay(records[r].date))
           /\ \A f \in HistoryMetrics : \A i \in DOMAIN fetched[f] :
                 Cardinality({r \in DOMAIN records :
                                 CalendarDay(records[r].date)
                                   = CalendarDay(fetched[f][i].startDate)}) = 1
           /\ \A r1, r2 \in DOMAIN records :
                 r1 # r2 => CalendarDay(records[r1].date) # CalendarDay(records[r2].date)
           /\ \A r \in DOMAIN records :
                 \E f \in HistoryMetrics : records[r][f] # <<>>
           /\ \A r1, r2 \in DOMAIN records :
                 r1 < r2 => records[r1].date > records[r2].date

\* Two days, the older fetched first, the newer holding two samples of one
\* metric fetched out of time order.
C10_Witness ==
    /\ HistoryReturned
    /\ serviceCalls[1].fetched.stepsData = <<[startDate |-> 12], [startDate |-> 0]>>
    /\ serviceCalls[1].fetched.sleepData = <<[startDate |-> 24]>>
    /\ Len(serviceCalls[1].outcome) = 2
    /\ serviceCalls[1].outcome[2].stepsData = <<[startDate |-> 12], [startDate |-> 0]>>

----------------------------------------------------------------------------
(* The isHealthKitInitialized flag over interleaved calls                  *)

\* The step in which call c invokes AppleHealthKit.initHealthKit.
CallsInitHealthKit(c) ==
    serviceCalls[c].pc # "init" /\ serviceCalls'[c].pc = "init"

\* The step in which the initHealthKit callback of call c runs.
CallbackCompleted(c) ==
    serviceCalls[c].pc = "init" /\ serviceCalls'[c].pc # "init"

CallbackReportedError(c) == serviceCalls'[c].init = "failed"

\* The step in which call c, resumed by its callback, throws
\* HealthKitInitializationError.
FailsInitialization(c) ==
    /\ CallbackCompleted(c)
    /\ serviceCalls'[c].pc = "threw"
    /\ serviceCalls'[c].outcome = "HealthKitInitializationError"

\* The flag is set by every initHealthKit callback, to "no error", and by
\* nothing else.
FlagFollowsLastCallback ==
    /\ \A c \in Slots :
           CallbackCompleted(c) => isHealthKitInitialized' = ~CallbackReportedError(c)
    /\ (\A c \in Slots : ~CallbackCompleted(c)) =>
           isHealthKitInitialized' = isHealthKitInitialized

\* A get method invokes initHealthKit only in its first step, and only when
\* it reads the flag as false there.
GetInitializesOnlyWhenFlagFalse ==
    \A c \in Slots :
        (CallsInitHealthKit(c) /\ serviceCalls'[c].method \in GetMethods) =>
            /\ ~isHealthKitInitialized
            /\ ~serviceCalls'[c].flagAtStart

\* While the flag is true no get method invokes initHealthKit or throws
\* HealthKitInitializationError, and only the callback of an explicit
\* initialize() call takes the flag back to false.
StaysInitializedUnlessInitializeFails ==
    /\ isHealthKitInitialized =>
           \A c \in Slots :
               serviceCalls'[c].method \in GetMethods =>
                   ~CallsInitHealthKit(c) /\ ~FailsInitialization(c)
    /\ (isHealthKitInitialized /\ ~isHealthKitInitialized') =>
           \E c \in Slots :
               CallbackCompleted(c) /\ serviceCalls[c].method = "initialize"

\* Only an initHealthKit callback that reports an error takes the flag back
\* to false: that of an explicit initialize() call, or that of a get method
\* which read the flag as false when it started.
FlagFallsOnlyOnCallbackError ==
    (isHealthKitInitialized /\ ~isHealthKitInitialized') =>
        \E c \in Slots :
            /\ CallbackCompleted(c)
            /\ CallbackReportedError(c)
            /\ \/ serviceCalls[c].method = "initialize"
               \/ serviceCalls[c].method \in GetMethods /\ ~serviceCalls[c].flagAtStart

\* A get method that read the flag as true when it started has not invoked
\* initHealthKit and has not thrown HealthKitInitializationError.
StartedInitializedNeverInitializes ==
    \A c \in Slots :
        LET k == serviceCalls[c]
        IN (k.method \in GetMethods /\ k.flagAtStart) =>
              /\ ~k.initHealthKitCalled
              /\ k.init = "none"
              /\ ~(k.pc = "threw" /\ k.outcome = "HealthKitInitializationError")

\* C11 as stated: over every interleaving of calls on the singleton the flag
\* starts false, stays false off iOS, and is true exactly when the most
\* recently completed initHealthKit callback reported no error; a get method
\* invokes initHealthKit only if the flag is false when the method starts; and
\* once an initialization has succeeded, get methods neither invoke
\* initHealthKit nor fail with HealthKitInitializationError unless a later
\* explicit initialize() call fails.
C11_InitializedUntilInitializeFails ==
    /\ ~isHealthKitInitialized
    /\ [](platformOS # "ios" => ~isHealthKitInitialized)
    /\ [][/\ FlagFollowsLastCallback
          /\ GetInitializesOnlyWhenFlagFalse
          /\ StaysInitializedUnlessInitializeFails]_vars

\* C11, amended: the flag starts false, stays false off iOS, and is true
\* exactly when the most recently completed initHealthKit callback reported
\* no error; a get method invokes initHealthKit only if the flag is false when
\* the method starts; a get method that starts while the flag is true neither
\* invokes initHealthKit nor fails with HealthKitInitializationError; and the
\* flag, once true, falls back to false only when a later initHealthKit
\* callback reports an error, be it that of an explicit initialize() call or
\* that of a get method which started while the flag was still false.
C11_InitializedUntilAnyCallbackFails ==
    /\ ~isHealthKitInitialized
    /\ [](/\ platformOS # "ios" => ~isHealthKitInitialized
          /\ StartedInitializedNeverInitializes)
    /\ [][/\ FlagFollowsLastCallback
          /\ GetInitializesOnlyWhenFlagFalse
          /\ FlagFallsOnlyOnCallbackError]_vars

\* Two get methods started while the flag was false: the callback of the
\* first reported no error and that call is still fetching, the callback of
\* the second reported an error afterwards, so the flag is false again and
\* the second call threw.
C11_Witness ==
    \E c, d \in Slots :
        /\ serviceCalls[c].method = "getAllHealthMetrics"
        /\ serviceCalls[c].init = "succeeded"
        /\ serviceCalls[c].pc = "fetch"
        /\ serviceCalls[d].method = "getHistoricalHealthData"
        /\ ~serviceCalls[d].flagAtStart
        /\ serviceCalls[d].init = "failed"
        /\ serviceCalls[d].pc = "threw"
        /\ serviceCalls[d].outcome = "HealthKitInitializationError"
        /\ ~isHealthKitInitialized

====
